---- MODULE Spec2Model ----
(***************************************************************************)
(* GifSpoofer (src/unnamed/part_000): median-cut quantisation, GIF LZW     *)
(* compression and GIF89a assembly; SecretEncoder (src/app.js): a message *)
(* hidden in the low bits of a canvas; the app shell                       *)
(* (src/unnamed/part_001): panels and GIF Spoofer submissions.  All are    *)
(* modelled as one state machine.                                          *)
(*                                                                         *)
(* JavaScript arrays are 0-based, TLA+ sequences 1-based: element j of a   *)
(* JavaScript array is element j+1 of the sequence that models it.         *)
(* A dictionary key "a,b,c" (the decimal indices joined by commas) is the  *)
(* sequence <<a, b, c>>.                                                   *)
(*                                                                         *)
(* A buffer (the pixel data, the index buffer, the byte arrays) is held in *)
(* pages: a sequence of sequences of PageSize elements, the last one       *)
(* possibly shorter.  At(b, n) is element n of buffer b, Size(b) its       *)
(* length, Paged(s) the buffer of the sequence s and Flat(b) the sequence  *)
(* of the buffer b.                                                        *)
(***************************************************************************)
EXTENDS Integers, Sequences, FiniteSets, TLC

VARIABLES
    todo,        \* the calls still to be made, in order (the caller's inputs)
    call,        \* the call that runs or ran last: "gif" (buildGif), "lzw" (lzwEncode),
                 \* "encode" or "decode" (SecretEncoder)
    pc,          \* its position: "idle", "loop" (in lzwEncode's loop), "done"
                 \* (lzwEncode returned), "built" (buildGif returned), "encoded",
                 \* "decoded", "threw" (SecretEncoder's call returned or threw)
    imageData,   \* buildGif's argument: data (the buffer of RGBA bytes), width, height
    palette,     \* quantize's palette
    gif,         \* the buffer of the bytes of the Blob buildGif returned
    results,     \* history: kind, input and output of every call that returned, in order
    indices,     \* lzwEncode's argument `indices` (a buffer)
    minCodeSize, \* lzwEncode's argument `minCodeSize`
    lz,          \* lzwEncode's locals: table, nextCode, codeSize, w, output (a buffer),
                 \* buffer, bufferLen, and the history lz.codes: every <<code, size>>
                 \* handed to writeBits, in order (a buffer)
    i,           \* lzwEncode's loop variable i (0-based, as in the source)
    compressed,  \* lzwEncode's return value (a buffer)
    canvas,      \* SecretEncoder's argument `canvas`: width, height and its RGBA bytes
    message,     \* encode's argument `message`: its UTF-16 code units
    decoded,     \* the string decode returned
    error,       \* the Error a SecretEncoder call threw, "" when it returned
    welcome,     \* the app shell: welcome.style.display, "" (shown) or "none"
    panels,      \* the ids of the panels that carry the class module-panel--open
    toolBtns,    \* the modules of the tool buttons that carry the class active
    activePanel, \* the variable activePanel: a module id, or "null"
    ghLoaded,    \* window._ghLoaded
    submissions, \* history: the images handed to handleGifFile, in order
    converting,  \* the numbers of the submissions whose GifSpoofer.convert is pending
    events,      \* history: <<"submit", n>> and <<"load", n>>, in order
    gifPreview,  \* gifPreview.src: an object URL, or "" before the first conversion
    gifDownload, \* gifDownload.href
    gifOpen,     \* gifOpen.href
    gifResult    \* gifResult.style.display, "none" until a conversion has completed

vars == <<todo, call, pc, imageData, palette, gif, results, indices, minCodeSize, lz, i,
          compressed, canvas, message, decoded, error,
          welcome, panels, toolBtns, activePanel, ghLoaded,
          submissions, converting, events, gifPreview, gifDownload, gifOpen, gifResult>>

gifVars == <<imageData, palette, gif, results>>

lzwVars == <<indices, minCodeSize, lz, i, compressed>>

secretVars == <<canvas, message, decoded, error>>

shellVars == <<welcome, panels, toolBtns, activePanel, ghLoaded>>

spooferVars == <<submissions, converting, events, gifPreview, gifDownload, gifOpen, gifResult>>

(***************************************************************************)
(* Bounds of the model.                                                    *)
(***************************************************************************)
\* Short lzwEncode inputs: every sequence of 1..MaxShortLen indices below ShortAlphabet.
MaxShortLen == 5
ShortAlphabet == 3
\* Long lzwEncode inputs: LongLen pseudo-random bytes, enough to fill the
\* 4096-entry dictionary and go on after the reset.
LongLen == 4300
\* LzwIter runs one iteration of the loop, or Stride (Stride*Stride) consecutive
\* iterations from a position that is a multiple of Stride (Stride*Stride) past
\* the first, in one step: a state deep in a long input then has a short trace,
\* and every loop position is still reached, by single iterations too.
Stride == 16
\* An input longer than MaxStepped runs the whole loop in one step.
MaxStepped == 5000
\* Small images: every image of at most MaxPixels pixels with colours of SmallColours.
MaxPixels == 3
\* Sequences of calls: at most MaxCalls calls, one after the other.
MaxCalls == 3
\* The number of elements in a page of a buffer.
PageSize == 256
\* Messages: every string of at most MaxMsgLen code units of MsgUnits.
MaxMsgLen == 2
\* Clicks on the tool buttons: at most MaxClicks, one after the other.
MaxClicks == 4
\* Images submitted to the GIF Spoofer: at most MaxSubmits.
MaxSubmits == 3

(***************************************************************************)
(* Arithmetic helpers for JavaScript's integer operators.                  *)
(***************************************************************************)
RECURSIVE Pow2(_)
Pow2(n) == IF n = 0 THEN 1 ELSE 2 * Pow2(n - 1)

\* a | b on non-negative 32-bit operands
RECURSIVE BitOr(_, _)
BitOr(a, b) ==
    IF a = 0 THEN b
    ELSE IF b = 0 THEN a
    ELSE (IF a % 2 = 1 \/ b % 2 = 1 THEN 1 ELSE 0) + 2 * BitOr(a \div 2, b \div 2)

Min(a, b) == IF a < b THEN a ELSE b
Max(a, b) == IF a < b THEN b ELSE a

\* the function f on 1..n as a sequence value
AsSeq(f) == f \o <<>>

(***************************************************************************)
(* Buffers                                                                 *)
(***************************************************************************)
\* the buffer that holds the sequence s
Paged(s) ==
    AsSeq([p \in 1 .. (Len(s) + PageSize - 1) \div PageSize |->
              SubSeq(s, (p - 1) * PageSize + 1, Min(p * PageSize, Len(s)))])

\* b.length
Size(b) == IF Len(b) = 0 THEN 0 ELSE (Len(b) - 1) * PageSize + Len(b[Len(b)])

\* element n of buffer b, n in 1..Size(b)
At(b, n) == b[((n - 1) \div PageSize) + 1][((n - 1) % PageSize) + 1]

\* pages lo..hi of buffer b as one sequence (by halving)
RECURSIVE FlatPages(_, _, _)
FlatPages(b, lo, hi) ==
    IF lo > hi THEN <<>>
    ELSE IF lo = hi THEN b[lo]
    ELSE LET mid == (lo + hi) \div 2 IN FlatPages(b, lo, mid) \o FlatPages(b, mid + 1, hi)

\* the sequence that buffer b holds
Flat(b) == FlatPages(b, 1, Len(b))

(***************************************************************************)
(* lzwEncode                                                               *)
(***************************************************************************)
maxTableSize == 4096
MaxCodeSize == 12

clearCode(mcs) == Pow2(mcs)
eoiCode(mcs) == clearCode(mcs) + 1

\* the seeded dictionary: one key per literal index value
InitialTable(mcs) == [k \in {<<v>> : v \in 0 .. clearCode(mcs) - 1} |-> k[1]]

\* table.get(w); a missing key gives undefined, which writeBits' shift turns into 0
TableGet(table, w) == IF w \in DOMAIN table THEN table[w] ELSE 0

\* the while loop of writeBits: flush whole bytes, low byte first
RECURSIVE FlushBytes(_)
FlushBytes(s) ==
    IF s.bufferLen >= 8
    THEN FlushBytes([s EXCEPT !.output = Append(@, s.buffer % 256),
                              !.buffer = s.buffer \div 256,
                              !.bufferLen = s.bufferLen - 8])
    ELSE s

\* the code or-ed into the buffer without the shift by bufferLen
writeBitsUnshifted(s, code, size) ==
    FlushBytes([s EXCEPT !.buffer = BitOr(s.buffer, code),
                         !.bufferLen = s.bufferLen + size,
                         !.codes = Append(@, <<code, size>>)])

\* lines 30-38
writeBits(s, code, size) ==
    FlushBytes([s EXCEPT !.buffer = BitOr(s.buffer, code * Pow2(s.bufferLen)),
                         !.bufferLen = s.bufferLen + size,
                         !.codes = Append(@, <<code, size>>)])

\* a widening one entry too early
GrowCodeSizeEarly(nextCode, codeSize) ==
    IF nextCode >= Pow2(codeSize) /\ codeSize < MaxCodeSize THEN codeSize + 1 ELSE codeSize

\* a widening one entry too late
GrowCodeSizeLate(nextCode, codeSize) ==
    IF nextCode > Pow2(codeSize) + 1 /\ codeSize < MaxCodeSize THEN codeSize + 1 ELSE codeSize

\* a widening by two bits
GrowCodeSizeByTwo(nextCode, codeSize) ==
    IF nextCode > Pow2(codeSize) /\ codeSize < MaxCodeSize THEN codeSize + 2 ELSE codeSize

\* the code width after inserting an entry (nextCode already incremented)
GrowCodeSize(nextCode, codeSize) ==
    IF nextCode > Pow2(codeSize) /\ codeSize < MaxCodeSize THEN codeSize + 1 ELSE codeSize

\* the output array of the call before kept, as if it were declared outside lzwEncode
LzwStartStale(ix, mcs) ==
    writeBits([table |-> InitialTable(mcs),
               nextCode |-> eoiCode(mcs) + 1,
               codeSize |-> mcs + 1,
               w |-> <<At(ix, 1)>>,
               output |-> Flat(lz.output),
               buffer |-> 0,
               bufferLen |-> 0,
               codes |-> <<>>], clearCode(mcs), mcs + 1)

\* lines 13-42: locals, first Clear, w = String(indices[0])
LzwStart(ix, mcs) ==
    writeBits([table |-> InitialTable(mcs),
               nextCode |-> eoiCode(mcs) + 1,
               codeSize |-> mcs + 1,
               w |-> <<At(ix, 1)>>,
               output |-> <<>>,
               buffer |-> 0,
               bufferLen |-> 0,
               codes |-> <<>>], clearCode(mcs), mcs + 1)

\* the entry inserted, the next code not advanced
LzwInsertSameCode(s, wk, k) ==
    [s EXCEPT !.table = (wk :> s.nextCode) @@ s.table,
              !.w = <<k>>]

\* the branch taken when wk is not in the table and the table has room
LzwInsert(s, wk, k) ==
    [s EXCEPT !.table = (wk :> s.nextCode) @@ s.table,
              !.nextCode = s.nextCode + 1,
              !.codeSize = GrowCodeSize(s.nextCode + 1, s.codeSize),
              !.w = <<k>>]

\* `w = k` left out of the table-full branch
LzwResetKeepW(s, mcs, k) ==
    [writeBits(s, clearCode(mcs), s.codeSize)
        EXCEPT !.table = InitialTable(mcs),
               !.nextCode = eoiCode(mcs) + 1,
               !.codeSize = mcs + 1]

\* the Clear written after the width was reset
LzwResetNarrow(s, mcs, k) ==
    [writeBits(s, clearCode(mcs), mcs + 1)
        EXCEPT !.table = InitialTable(mcs),
               !.nextCode = eoiCode(mcs) + 1,
               !.codeSize = mcs + 1,
               !.w = <<k>>]

\* the branch taken when the table is full: Clear, reseed, reset
LzwReset(s, mcs, k) ==
    [writeBits(s, clearCode(mcs), s.codeSize)
        EXCEPT !.table = InitialTable(mcs),
               !.nextCode = eoiCode(mcs) + 1,
               !.codeSize = mcs + 1,
               !.w = <<k>>]

\* one iteration of the for loop (lines 45-70) on input index k
LzwBody(s, mcs, k) ==
    LET wk == Append(s.w, k) IN
    IF wk \in DOMAIN s.table
    THEN [s EXCEPT !.w = wk]
    ELSE LET e == writeBits(s, TableGet(s.table, s.w), s.codeSize) IN
         IF e.nextCode < maxTableSize
         THEN LzwInsert(e, wk, k)
         ELSE LzwReset(e, mcs, k)

\* iterations i = lo .. hi of the for loop, in order (by halving; the test of
\* left.nextCode, which is never 0, makes the left half be evaluated first)
RECURSIVE LzwLoop(_, _, _, _, _)
LzwLoop(s, mcs, ix, lo, hi) ==
    IF lo > hi THEN s
    ELSE IF lo = hi THEN LzwBody(s, mcs, At(ix, lo + 1))
    ELSE LET mid == (lo + hi) \div 2
             left == LzwLoop(s, mcs, ix, lo, mid)
         IN  IF left.nextCode = 0 THEN left ELSE LzwLoop(left, mcs, ix, mid + 1, hi)

\* End-of-Information written before the code of the final prefix
LzwEndEoiFirst(s, mcs) ==
    LET a == writeBits(s, eoiCode(mcs), s.codeSize)
        b == writeBits(a, TableGet(s.table, s.w), a.codeSize)
    IN  IF b.bufferLen > 0 THEN [b EXCEPT !.output = Append(@, b.buffer % 256)] ELSE b

\* the partial last byte never flushed
LzwEndNoFlush(s, mcs) ==
    writeBits(writeBits(s, TableGet(s.table, s.w), s.codeSize), eoiCode(mcs), s.codeSize)

\* lines 73-76: final prefix, End-of-Information, partial byte
LzwEnd(s, mcs) ==
    LET a == writeBits(s, TableGet(s.table, s.w), s.codeSize)
        b == writeBits(a, eoiCode(mcs), a.codeSize)
    IN  IF b.bufferLen > 0 THEN [b EXCEPT !.output = Append(@, b.buffer % 256)] ELSE b

(***************************************************************************)
(* quantize                                                                *)
(*                                                                         *)
(* A read past the end of the pixel buffer gives undefined, and every use  *)
(* the code makes of undefined (+, -, *, <, Math.round, a store into a     *)
(* Uint8Array) treats it as NaN does: the model has the one value NaN.     *)
(***************************************************************************)
NaN == -1000000000
Infinity == 1000000000
SampleLimit == 100000
SampleTarget == 50000
PaletteSize == 256
CutDepth == 8

JsAdd(a, b) == IF a = NaN \/ b = NaN THEN NaN ELSE a + b
JsSub(a, b) == IF a = NaN \/ b = NaN THEN NaN ELSE a - b
JsMul(a, b) == IF a = NaN \/ b = NaN THEN NaN ELSE a * b
JsLess(a, b) == a # NaN /\ b # NaN /\ a < b
\* Math.round(r / n) for r >= 0, n > 0: halves round up
RoundDiv(r, n) == IF r = NaN THEN NaN ELSE (2 * r + n) \div (2 * n)

SetMin(S) == CHOOSE x \in S : \A y \in S : x <= y
SetMax(S) == CHOOSE x \in S : \A y \in S : y <= x

\* data[off]
DataAt(data, off) == IF off < Size(data) THEN At(data, off + 1) ELSE NaN

\* [data[off], data[off + 1], data[off + 2]] for off = 4 * n: pixel n's colour
PixelAt(data, n) == <<DataAt(data, 4 * n), DataAt(data, 4 * n + 1), DataAt(data, 4 * n + 2)>>

SampleStep(pixelCount) ==
    IF pixelCount > SampleLimit THEN pixelCount \div SampleTarget ELSE 1

\* lines 88-92: pixels 0, step, 2*step, ... below pixelCount
Samples(data, pixelCount) ==
    LET step == SampleStep(pixelCount) IN
    AsSeq([j \in 1 .. (pixelCount + step - 1) \div step |-> PixelAt(data, (j - 1) * step)])

\* the sum of channel ch over pixels lo..hi (by halving)
RECURSIVE SumChannel(_, _, _, _)
SumChannel(pixels, ch, lo, hi) ==
    IF lo > hi THEN 0
    ELSE IF lo = hi THEN pixels[lo][ch]
    ELSE LET mid == (lo + hi) \div 2 IN
         JsAdd(SumChannel(pixels, ch, lo, mid), SumChannel(pixels, ch, mid + 1, hi))

\* lines 97-101: the average colour of a bucket, black for an empty one
AverageColour(pixels) ==
    LET n == IF Len(pixels) = 0 THEN 1 ELSE Len(pixels) IN
    <<RoundDiv(SumChannel(pixels, 1, 1, Len(pixels)), n),
      RoundDiv(SumChannel(pixels, 2, 1, Len(pixels)), n),
      RoundDiv(SumChannel(pixels, 3, 1, Len(pixels)), n)>>

\* the values of channel ch in a bucket that compare (NaN compares with nothing)
ChannelValues(pixels, ch) == {pixels[j][ch] : j \in 1 .. Len(pixels)} \ {NaN}

\* lines 105-111: max - min, min starting from 255 and max from 0
ChannelRange(pixels, ch) ==
    SetMax(ChannelValues(pixels, ch) \cup {0}) - SetMin(ChannelValues(pixels, ch) \cup {255})

\* the widest channel with `>` for `>=`: among equal ranges the last channel
WidestChannelLast(pixels) ==
    LET rangeR == ChannelRange(pixels, 1)
        rangeG == ChannelRange(pixels, 2)
        rangeB == ChannelRange(pixels, 3)
    IN  IF rangeR > rangeG /\ rangeR > rangeB THEN 1
        ELSE IF rangeG > rangeB THEN 2 ELSE 3

\* line 112: the widest channel, R before G before B (channels 1, 2, 3 here)
WidestChannel(pixels) ==
    LET rangeR == ChannelRange(pixels, 1)
        rangeG == ChannelRange(pixels, 2)
        rangeB == ChannelRange(pixels, 3)
    IN  IF rangeR >= rangeG /\ rangeR >= rangeB THEN 1
        ELSE IF rangeG >= rangeB THEN 2 ELSE 3

\* the pixels ordered by channel ch, whose values lie in lo..hi, pixels of equal
\* value in their original order (by halving the range of values)
RECURSIVE StableSort(_, _, _, _)
StableSort(pixels, ch, lo, hi) ==
    IF Len(pixels) <= 1 \/ lo = hi THEN pixels
    ELSE LET mid == (lo + hi) \div 2 IN
         StableSort(SelectSeq(pixels, LAMBDA p : p[ch] <= mid), ch, lo, mid)
         \o StableSort(SelectSeq(pixels, LAMBDA p : p[ch] > mid), ch, mid + 1, hi)

\* line 114: pixels.sort((a, b) => a[ch] - b[ch]), a stable sort.  A comparison
\* with an undefined channel gives NaN, which sort takes as "equal": with at most
\* two pixels (the only buckets the model gives an undefined channel) the order
\* then stays as it is.
SortByChannel(pixels, ch) ==
    IF \E j \in 1 .. Len(pixels) : pixels[j][ch] = NaN THEN pixels
    ELSE StableSort(pixels, ch, 0, 255)

\* lines 95-121
RECURSIVE medianCut(_, _)
medianCut(pixels, depth) ==
    IF depth = 0 \/ Len(pixels) = 0 THEN <<AverageColour(pixels)>>
    ELSE LET sorted == SortByChannel(pixels, WidestChannel(pixels))
             mid == Len(sorted) \div 2
         IN  medianCut(SubSeq(sorted, 1, mid), depth - 1)
             \o medianCut(SubSeq(sorted, mid + 1, Len(sorted)), depth - 1)

\* lines 96, 104-120: the splits medianCut makes below a call on `pixels` with
\* this depth, each with the bucket split, the channel `ch` chosen for it, and
\* the two slices handed on
RECURSIVE CutSplits(_, _)
CutSplits(pixels, depth) ==
    IF depth = 0 \/ Len(pixels) = 0 THEN {}
    ELSE LET ch == WidestChannel(pixels)
             sorted == SortByChannel(pixels, ch)
             mid == Len(sorted) \div 2
             lower == SubSeq(sorted, 1, mid)
             upper == SubSeq(sorted, mid + 1, Len(sorted))
         IN  {[bucket |-> pixels, depth |-> depth, ch |-> ch, lower |-> lower, upper |-> upper]}
             \cup CutSplits(lower, depth - 1) \cup CutSplits(upper, depth - 1)

\* lines 96, 114-120: the buckets medianCut takes the average colour of, in the
\* order of the colours it returns
RECURSIVE CutLeaves(_, _)
CutLeaves(pixels, depth) ==
    IF depth = 0 \/ Len(pixels) = 0 THEN <<pixels>>
    ELSE LET sorted == SortByChannel(pixels, WidestChannel(pixels))
             mid == Len(sorted) \div 2
         IN  CutLeaves(SubSeq(sorted, 1, mid), depth - 1)
             \o CutLeaves(SubSeq(sorted, mid + 1, Len(sorted)), depth - 1)

\* the number of levels of recursive calls medianCut makes below a call on a
\* bucket of n pixels with this depth (lines 96, 115-120: the halves hold
\* n >> 1 and n - (n >> 1) pixels, whatever the sort)
RECURSIVE CutLevels(_, _)
CutLevels(n, depth) ==
    IF depth = 0 \/ n = 0 THEN 0
    ELSE 1 + Max(CutLevels(n \div 2, depth - 1), CutLevels(n - (n \div 2), depth - 1))

\* one entry too many: `<=` for `<` in the padding loop, and no cut
FixPaletteOneMore(cut) ==
    AsSeq([c \in 1 .. Max(Len(cut), PaletteSize + 1) |->
              IF c <= Len(cut) THEN cut[c] ELSE <<0, 0, 0>>])

\* padding with white
FixPaletteWhite(cut) ==
    AsSeq([c \in 1 .. PaletteSize |-> IF c <= Len(cut) THEN cut[c] ELSE <<255, 255, 255>>])

\* lines 123-125: pad with black to 256 entries, cut to 256
FixPalette(cut) ==
    AsSeq([c \in 1 .. PaletteSize |-> IF c <= Len(cut) THEN cut[c] ELSE <<0, 0, 0>>])

\* line 134-135: the squared distance of pixel p to palette entry e
Distance(p, e) ==
    LET dr == JsSub(p[1], e[1])
        dg == JsSub(p[2], e[2])
        db == JsSub(p[3], e[3])
    IN  JsAdd(JsAdd(JsMul(dr, dr), JsMul(dg, dg)), JsMul(db, db))

\* the last minimum wins
NearestBodyLast(best, pal, p, c) ==
    LET d == Distance(p, pal[c + 1]) IN
    IF d # NaN /\ d <= best.bestDist THEN [bestIdx |-> c, bestDist |-> d] ELSE best

\* line 136 for palette entry c (0-based)
NearestBody(best, pal, p, c) ==
    LET d == Distance(p, pal[c + 1]) IN
    IF JsLess(d, best.bestDist) THEN [bestIdx |-> c, bestDist |-> d] ELSE best

\* iterations c = lo .. hi of the loop of lines 133-137, in order (by halving;
\* the test of left.bestIdx, which is never negative, makes the left half be
\* evaluated first)
RECURSIVE NearestLoop(_, _, _, _, _)
NearestLoop(best, pal, p, lo, hi) ==
    IF lo > hi THEN best
    ELSE IF lo = hi THEN NearestBody(best, pal, p, lo)
    ELSE LET mid == (lo + hi) \div 2
             left == NearestLoop(best, pal, p, lo, mid)
         IN  IF left.bestIdx < 0 THEN left ELSE NearestLoop(left, pal, p, mid + 1, hi)

\* lines 132-138: the index stored for a pixel of colour p
NearestIndex(pal, p) ==
    NearestLoop([bestIdx |-> 0, bestDist |-> Infinity], pal, p, 0, PaletteSize - 1).bestIdx

\* lines 128-139.  The index of a pixel depends on its colour alone: it is
\* computed once per colour of the buffer.
MapPixels(data, pixelCount, pal) ==
    LET colours == {PixelAt(data, n) : n \in 0 .. pixelCount - 1}
        nearest == [p \in colours |-> NearestIndex(pal, p)] @@ <<>>
    IN  AsSeq([n \in 1 .. pixelCount |-> nearest[PixelAt(data, n - 1)]])

\* the buffer with its pixels in the order of medianCut's first sort, as if the
\* samples were views of the buffer and the sort moved their bytes
DataSorted(image) ==
    LET px == Samples(image.data, image.width * image.height)
        sorted == SortByChannel(px, WidestChannel(px))
    IN  Paged([j \in 1 .. 4 * Len(sorted) |->
                  IF (j - 1) % 4 = 3 THEN 255 ELSE sorted[((j - 1) \div 4) + 1][((j - 1) % 4) + 1]])

\* the caller's buffer as quantize and buildGif leave it: lines 83-139 read
\* `data` and store into samples (fresh arrays, line 91), palette and indices
\* only; lines 146-212 do not touch it
DataLeft(image) == image.data

\* lines 82-142
quantize(image) ==
    LET pixelCount == image.width * image.height
        pal == FixPalette(medianCut(Samples(image.data, pixelCount), CutDepth))
    IN  [palette |-> pal, indices |-> Paged(MapPixels(image.data, pixelCount, pal))]

(***************************************************************************)
(* buildGif                                                                *)
(***************************************************************************)
GifMinCodeSize == 8

\* line 152
le16(v) == <<v % 256, (v \div 256) % 256>>

\* a store into a Uint8Array: NaN is stored as 0
ToUint8(v) == IF v = NaN THEN 0 ELSE v % 256

\* lines 166-171 (by halving over the entries lo..hi)
RECURSIVE ColourTable(_, _, _)
ColourTable(pal, lo, hi) ==
    IF lo > hi THEN <<>>
    ELSE IF lo = hi THEN <<ToUint8(pal[lo][1]), ToUint8(pal[lo][2]), ToUint8(pal[lo][3])>>
    ELSE LET mid == (lo + hi) \div 2 IN
         ColourTable(pal, lo, mid) \o ColourTable(pal, mid + 1, hi)

\* sub-blocks of up to 256 bytes
RECURSIVE SubBlocksWide(_, _)
SubBlocksWide(bytes, offset) ==
    IF offset < Len(bytes)
    THEN LET chunkSize == Min(256, Len(bytes) - offset) IN
         <<chunkSize>> \o SubSeq(bytes, offset + 1, offset + chunkSize)
                       \o SubBlocksWide(bytes, offset + chunkSize)
    ELSE <<>>

\* lines 198-204: the sub-blocks from `offset` on
RECURSIVE SubBlocks(_, _)
SubBlocks(bytes, offset) ==
    IF offset < Len(bytes)
    THEN LET chunkSize == Min(255, Len(bytes) - offset) IN
         <<chunkSize>> \o SubSeq(bytes, offset + 1, offset + chunkSize)
                       \o SubBlocks(bytes, offset + chunkSize)
    ELSE <<>>

\* the transparency flag set in the Graphic Control Extension
GifHeadTransparent(width, height, pal) ==
    <<71, 73, 70, 56, 57, 97>>
    \o le16(width) \o le16(height) \o <<247, 0, 0>>
    \o ColourTable(pal, 1, PaletteSize)
    \o <<33, 249, 4, 1, 0, 0, 0, 0>>
    \o <<44>> \o le16(0) \o le16(0) \o le16(width) \o le16(height) \o <<0>>
    \o <<GifMinCodeSize>>

\* lines 155-194: the parts pushed before the image data
GifHead(width, height, pal) ==
    <<71, 73, 70, 56, 57, 97>>
    \o le16(width) \o le16(height) \o <<247, 0, 0>>
    \o ColourTable(pal, 1, PaletteSize)
    \o <<33, 249, 4, 0, 0, 0, 0, 0>>
    \o <<44>> \o le16(0) \o le16(0) \o le16(width) \o le16(height) \o <<0>>
    \o <<GifMinCodeSize>>

\* lines 196-212: the Blob's bytes
GifBytes(width, height, pal, bytes) ==
    GifHead(width, height, pal) \o SubBlocks(bytes, 0) \o <<0>> \o <<59>>

\* lzwEncode's locals as the state holds them, and back
PackLz(s) == [s EXCEPT !.output = Paged(@), !.codes = Paged(@)]
UnpackLz(s) == [s EXCEPT !.output = Flat(@), !.codes = Flat(@)]

(***************************************************************************)
(* SecretEncoder (src/app.js)                                              *)
(*                                                                         *)
(* A message is a JavaScript string: a sequence of UTF-16 code units.      *)
(* TextEncoder and TextDecoder are modelled as the Encoding standard has   *)
(* them: an unpaired surrogate is encoded as U+FFFD, a byte order mark at  *)
(* the start of the bytes is dropped by the decoder, ill-formed bytes are  *)
(* decoded as U+FFFD.  A canvas is its width, its height and the RGBA      *)
(* bytes getImageData returns; for opaque pixels (alpha 255, as all        *)
(* canvases here have) putImageData stores the bytes unchanged.            *)
(***************************************************************************)
HeaderPixels == 32

IsHigh(u) == u \in 55296 .. 56319
IsLow(u) == u \in 56320 .. 57343

\* the UTF-8 bytes of a scalar value
Utf8Bytes(cp) ==
    IF cp < 128 THEN <<cp>>
    ELSE IF cp < 2048 THEN <<192 + (cp \div 64), 128 + (cp % 64)>>
    ELSE IF cp < 65536 THEN <<224 + (cp \div 4096), 128 + ((cp \div 64) % 64), 128 + (cp % 64)>>
    ELSE <<240 + (cp \div 262144), 128 + ((cp \div 4096) % 64), 128 + ((cp \div 64) % 64),
           128 + (cp % 64)>>

\* new TextEncoder().encode(message), lines 244-245
RECURSIVE Utf8Encode(_)
Utf8Encode(msg) ==
    IF msg = <<>> THEN <<>>
    ELSE IF IsHigh(msg[1]) /\ Len(msg) >= 2 /\ IsLow(msg[2])
    THEN Utf8Bytes(65536 + (msg[1] - 55296) * 1024 + (msg[2] - 56320))
         \o Utf8Encode(SubSeq(msg, 3, Len(msg)))
    ELSE IF IsHigh(msg[1]) \/ IsLow(msg[1])
    THEN Utf8Bytes(65533) \o Utf8Encode(Tail(msg))
    ELSE Utf8Bytes(msg[1]) \o Utf8Encode(Tail(msg))

IsCont(bytes, n) == n <= Len(bytes) /\ bytes[n] \in 128 .. 191

\* the UTF-16 code units of a scalar value
Utf16Units(cp) ==
    IF cp < 65536 THEN <<cp>>
    ELSE <<55296 + ((cp - 65536) \div 1024), 56320 + ((cp - 65536) % 1024)>>

\* the UTF-8 decoder from byte n on
RECURSIVE Utf8DecodeFrom(_, _)
Utf8DecodeFrom(bytes, n) ==
    IF n > Len(bytes) THEN <<>>
    ELSE IF bytes[n] < 128 THEN <<bytes[n]>> \o Utf8DecodeFrom(bytes, n + 1)
    ELSE IF bytes[n] \in 194 .. 223 /\ IsCont(bytes, n + 1)
    THEN <<(bytes[n] - 192) * 64 + bytes[n + 1] - 128>> \o Utf8DecodeFrom(bytes, n + 2)
    ELSE IF /\ bytes[n] \in 224 .. 239 /\ IsCont(bytes, n + 1) /\ IsCont(bytes, n + 2)
            /\ (bytes[n] - 224) * 4096 + (bytes[n + 1] - 128) * 64 >= 2048
            /\ (bytes[n] - 224) * 4096 + (bytes[n + 1] - 128) * 64 \notin 55296 .. 57343
    THEN <<(bytes[n] - 224) * 4096 + (bytes[n + 1] - 128) * 64 + bytes[n + 2] - 128>>
         \o Utf8DecodeFrom(bytes, n + 3)
    ELSE IF /\ bytes[n] \in 240 .. 244
            /\ IsCont(bytes, n + 1) /\ IsCont(bytes, n + 2) /\ IsCont(bytes, n + 3)
            /\ (bytes[n] - 240) * 262144 + (bytes[n + 1] - 128) * 4096 \in 65536 .. 1114111
    THEN Utf16Units((bytes[n] - 240) * 262144 + (bytes[n + 1] - 128) * 4096
                    + (bytes[n + 2] - 128) * 64 + bytes[n + 3] - 128)
         \o Utf8DecodeFrom(bytes, n + 4)
    ELSE <<65533>> \o Utf8DecodeFrom(bytes, n + 1)

\* new TextDecoder().decode(bytes), lines 342-343: a leading EF BB BF is dropped
Utf8Decode(bytes) ==
    IF Len(bytes) >= 3 /\ SubSeq(bytes, 1, 3) = <<239, 187, 191>>
    THEN Utf8DecodeFrom(bytes, 4)
    ELSE Utf8DecodeFrom(bytes, 1)

\* (v & 0xfe) | bit
SetLsb(v, bit) == (v - (v % 2)) + bit

\* (msgLen >> (31 - i)) & 1 for i = 0..31; msgLen is a length, below 2^31,
\* and its bit 31 is 0
LengthBit(msgLen, j) == IF j = 0 THEN 0 ELSE (msgLen \div Pow2(31 - j)) % 2

\* lines 266-271: bits[j], the bytes' bits from the high bit of the first byte on
MessageBit(msgBytes, j) == (msgBytes[(j \div 8) + 1] \div Pow2(7 - (j % 8))) % 2

\* the pixels needed with the division rounded down
TotalNeededFloor(msgLen) == HeaderPixels + ((msgLen * 8) \div 3)

\* lines 248-250
TotalNeeded(msgLen) == HeaderPixels + ((msgLen * 8 + 2) \div 3)

\* lines 347-354
capacity(cv) ==
    Max(0, (((cv.width * cv.height) - HeaderPixels) * 3) \div 8)

\* lines 256-287: the bytes of `data` after the two loops of writes.  Byte n
\* (1-based) is channel (n-1) % 4 of pixel (n-1) \div 4.
EncodeData(data, totalPixels, msgBytes) ==
    [n \in 1 .. Len(data) |->
        LET p == (n - 1) \div 4
            ch == (n - 1) % 4
            j == (p - HeaderPixels) * 3 + ch
        IN  IF p < HeaderPixels
            THEN IF ch = 0 THEN SetLsb(data[n], LengthBit(Len(msgBytes), p)) ELSE data[n]
            ELSE IF ch < 3 /\ p < totalPixels /\ j < 8 * Len(msgBytes)
            THEN SetLsb(data[n], MessageBit(msgBytes, j))
            ELSE data[n]]

\* lines 237-289: the canvas after encode, or the error thrown
encode(cv, msg) ==
    LET msgBytes == Utf8Encode(msg)
        totalPixels == cv.width * cv.height
    IN  IF TotalNeeded(Len(msgBytes)) > totalPixels
        THEN [canvas |-> cv, error |-> "Message too long"]
        ELSE [canvas |-> [cv EXCEPT !.data = EncodeData(cv.data, totalPixels, msgBytes)],
              error |-> ""]

\* lines 309-313: msgLen = (msgLen << 1) | bit over the R bits of pixels
\* 0..31, a signed 32-bit value: the bit of pixel 0 is its sign bit
RECURSIVE ReadLow(_, _, _)
ReadLow(data, acc, p) ==
    IF p = HeaderPixels THEN acc
    ELSE ReadLow(data, 2 * acc + (data[4 * p + 1] % 2), p + 1)

ReadLength(data) ==
    IF data[1] % 2 = 1 THEN (ReadLow(data, 0, 1) - 2147483647) - 1
    ELSE ReadLow(data, 0, 1)

\* lines 320-329: bits[j], or 0 (`|| 0`) for a bit no pixel holds
ReadBit(data, totalPixels, j) ==
    IF HeaderPixels + (j \div 3) < totalPixels
    THEN data[4 * (HeaderPixels + (j \div 3)) + (j % 3) + 1] % 2
    ELSE 0

\* lines 332-339: bytes[b] for b = 0 .. msgLen - 1
ReadBytes(data, totalPixels, msgLen) ==
    [b \in 1 .. msgLen |->
        ReadBit(data, totalPixels, 8 * (b - 1)) * 128
        + ReadBit(data, totalPixels, 8 * (b - 1) + 1) * 64
        + ReadBit(data, totalPixels, 8 * (b - 1) + 2) * 32
        + ReadBit(data, totalPixels, 8 * (b - 1) + 3) * 16
        + ReadBit(data, totalPixels, 8 * (b - 1) + 4) * 8
        + ReadBit(data, totalPixels, 8 * (b - 1) + 5) * 4
        + ReadBit(data, totalPixels, 8 * (b - 1) + 6) * 2
        + ReadBit(data, totalPixels, 8 * (b - 1) + 7)]

\* lines 298-344: the string decode returns, or the error thrown
decode(cv) ==
    LET totalPixels == cv.width * cv.height IN
    IF totalPixels < HeaderPixels
    THEN [text |-> <<>>, error |-> "Image too small"]
    ELSE LET msgLen == ReadLength(cv.data) IN
         IF msgLen <= 0 \/ msgLen > totalPixels
         THEN [text |-> <<>>, error |-> "No hidden message"]
         ELSE [text |-> Utf8Decode(ReadBytes(cv.data, totalPixels, msgLen)), error |-> ""]

(***************************************************************************)
(* The app shell (src/unnamed/part_001): sidebar and panels                *)
(*                                                                         *)
(* The page's markup is the modules the script names: "gif", "steg",       *)
(* "font" and "gh", each with a tool button (data-module) and a panel      *)
(* (#panel-<id>).  The shell's state is the record of welcome, panels,     *)
(* toolBtns, activePanel and ghLoaded.                                     *)
(***************************************************************************)
Modules == {"gif", "steg", "font", "gh"}

\* the ids for which $(`#panel-${id}`) finds an element
PanelIds == Modules

\* openPanel without the loop that closes the open panels
openPanelKeepOpen(u, id) ==
    IF id \notin PanelIds THEN [u EXCEPT !.welcome = "none"]
    ELSE [u EXCEPT !.welcome = "none",
                   !.panels = u.panels \cup {id},
                   !.activePanel = id,
                   !.toolBtns = {id} \cap Modules,
                   !.ghLoaded = u.ghLoaded \/ id = "gh"]

\* lines 70-100
openPanel(u, id) ==
    IF id \notin PanelIds THEN [u EXCEPT !.welcome = "none", !.panels = {}]
    ELSE [u EXCEPT !.welcome = "none",
                   !.panels = {id},
                   !.activePanel = id,
                   !.toolBtns = {id} \cap Modules,
                   !.ghLoaded = u.ghLoaded \/ id = "gh"]

\* lines 102-110
closePanel(u) ==
    [u EXCEPT !.panels = {}, !.toolBtns = {}, !.welcome = "", !.activePanel = "null"]

\* lines 113-121: the click handler of the tool button of module mod
ToolClick(u, mod) == IF u.activePanel = mod THEN closePanel(u) ELSE openPanel(u, mod)

(***************************************************************************)
(* The app shell: handleGifFile and GifSpoofer.convert                     *)
(***************************************************************************)
\* buildGif(imageData) as one function: part_000 lines 145-212
buildGif(image) ==
    LET q == quantize(image)
        n == Size(q.indices)
        s == LzwEnd(LzwLoop(LzwStart(q.indices, GifMinCodeSize), GifMinCodeSize,
                            q.indices, 1, n - 1), GifMinCodeSize)
    IN  Paged(GifBytes(image.width, image.height, q.palette, s.output))

\* URL.createObjectURL(gifBlob) in the handleGifFile call of submission n: a
\* URL of its own for every call, here the number of the call with the Blob
ObjectUrl(n, blob) == [n |-> n, blob |-> blob]

(***************************************************************************)
(* The reference: a GIF89a LZW decoder (GIF89a specification, appendix F;  *)
(* no part of the repository).  It reads codes least significant bit       *)
(* first, starts at minCodeSize+1 bits, adds one dictionary entry per code *)
(* received after the first code that follows a Clear, widens when its     *)
(* next free code reaches 2^width (never beyond 12 bits), and stops at     *)
(* End-of-Information or when the data runs out.  `bytes` is a buffer.     *)
(***************************************************************************)
ByteAt(bytes, n) == IF n + 1 <= Size(bytes) THEN At(bytes, n + 1) ELSE 0

\* the `size` bits that start at bit `pos` of the byte stream
ReadCode(bytes, pos, size) ==
    LET b == pos \div 8
        word == ByteAt(bytes, b) + 256 * ByteAt(bytes, b + 1) + 65536 * ByteAt(bytes, b + 2)
    IN  (word \div Pow2(pos % 8)) % Pow2(size)

DecStart(mcs) ==
    [pos |-> 0, codeSize |-> mcs + 1, next |-> Pow2(mcs) + 2, dict |-> <<>>,
     prev |-> <<>>, out |-> <<>>, status |-> "run"]

\* the string of a code that is not a control code; <<>> when the code is invalid
DecString(d, mcs, v) ==
    IF v < Pow2(mcs) THEN <<v>>
    ELSE IF v < d.next THEN d.dict[v - (Pow2(mcs) + 1)]
    ELSE IF v = d.next /\ d.prev # <<>> THEN Append(d.prev, d.prev[1])
    ELSE <<>>

DecStep(d, bytes, mcs) ==
    IF d.status # "run" THEN d
    ELSE IF d.pos + d.codeSize > 8 * Size(bytes) THEN [d EXCEPT !.status = "eof"]
    ELSE LET v == ReadCode(bytes, d.pos, d.codeSize)
             r == [d EXCEPT !.pos = d.pos + d.codeSize]
             s == DecString(d, mcs, v)
         IN  IF v = Pow2(mcs)
             THEN [r EXCEPT !.codeSize = mcs + 1, !.next = Pow2(mcs) + 2,
                            !.dict = <<>>, !.prev = <<>>]
             ELSE IF v = Pow2(mcs) + 1 THEN [r EXCEPT !.status = "eoi"]
             ELSE IF s = <<>> \/ (d.prev = <<>> /\ v > Pow2(mcs)) THEN [r EXCEPT !.status = "bad"]
             ELSE IF d.prev = <<>> THEN [r EXCEPT !.out = d.out \o s, !.prev = s]
             ELSE IF d.next < 4096
             THEN [r EXCEPT !.out = d.out \o s, !.prev = s,
                            !.dict = Append(d.dict, Append(d.prev, s[1])),
                            !.next = d.next + 1,
                            !.codeSize = IF d.next + 1 = Pow2(d.codeSize) /\ d.codeSize < 12
                                         THEN d.codeSize + 1 ELSE d.codeSize]
             ELSE [r EXCEPT !.out = d.out \o s, !.prev = s]

\* DecStep applied hi-lo+1 times, by halving (the steps are sequential)
RECURSIVE DecFold(_, _, _, _, _)
DecFold(d, bytes, mcs, lo, hi) ==
    IF lo > hi THEN d
    ELSE IF lo = hi THEN DecStep(d, bytes, mcs)
    ELSE LET mid == (lo + hi) \div 2
             left == DecFold(d, bytes, mcs, lo, mid)
         IN  IF left.status # "run" THEN left ELSE DecFold(left, bytes, mcs, mid + 1, hi)

\* no stream of n bytes holds more than 8n/(minCodeSize+1) codes
LzwDecode(bytes, mcs) == DecFold(DecStart(mcs), bytes, mcs, 1, (8 * Size(bytes)) \div (mcs + 1) + 1)

(***************************************************************************)
(* Inputs                                                                  *)
(***************************************************************************)
RECURSIVE SeqsUpTo(_, _)
SeqsUpTo(S, n) ==
    IF n = 0 THEN {<<>>}
    ELSE LET prev == SeqsUpTo(S, n - 1) IN
         prev \cup {Append(s, x) : s \in {t \in prev : Len(t) = n - 1}, x \in S}

\* byte n of a long input: a quadratic residue sequence, in which few pairs repeat
LongByte(seed, n) == ((n * n * 31 + n * seed) % 4099) % 256

LongInput(seed) == AsSeq([n \in 1 .. LongLen |-> LongByte(seed, n)])

ShortInputs == SeqsUpTo(0 .. ShortAlphabet - 1, MaxShortLen) \ {<<>>}

\* direct calls of lzwEncode: the indices are below 2^minCodeSize
LzwJobs ==
    {j \in [kind : {"lzw"}, indices : ShortInputs, minCodeSize : {2, 3, 8}] :
        \A n \in 1 .. Len(j.indices) : j.indices[n] < clearCode(j.minCodeSize)}

SmallColours == {<<0, 0, 0>>, <<255, 0, 0>>, <<0, 0, 255>>, <<0, 255, 0>>}

\* the RGBA buffer of a sequence of colours (alpha 255)
RECURSIVE Rgba(_)
Rgba(colours) ==
    IF colours = <<>> THEN <<>>
    ELSE <<Head(colours)[1], Head(colours)[2], Head(colours)[3], 255>> \o Rgba(Tail(colours))

\* the colours of the small images, row after row, with a width and the height
\* that goes with it
SmallPixels ==
    {[colours |-> cs, width |-> w, height |-> Len(cs) \div w] :
        cs \in SeqsUpTo(SmallColours, MaxPixels) \ {<<>>}, w \in 1 .. MaxPixels}

\* the small images whose buffer holds exactly width * height pixels
SmallImages == {m \in SmallPixels : Len(m.colours) = m.width * m.height}

\* the ImageData whose data is the sequence `bytes`
Image(bytes, w, h) == [data |-> Paged(bytes), width |-> w, height |-> h]

\* buildGif calls on well-formed images
GifJobs ==
    {[kind |-> "gif", image |-> Image(Rgba(m.colours), m.width, m.height)] : m \in SmallImages}

\* a w x h image whose pixel n (0-based) has channel ch = (a[ch] * n + b[ch]) % m[ch]
PatternByte(j, a, b, m) ==
    IF (j - 1) % 4 = 3 THEN 255
    ELSE (a[((j - 1) % 4) + 1] * ((j - 1) \div 4) + b[((j - 1) % 4) + 1]) % m[((j - 1) % 4) + 1]

PatternImage(w, h, a, b, m) ==
    [data |-> AsSeq([p \in 1 .. (4 * w * h + PageSize - 1) \div PageSize |->
                 AsSeq([q \in 1 .. Min(PageSize, 4 * w * h - (p - 1) * PageSize) |->
                     PatternByte((p - 1) * PageSize + q, a, b, m)])]),
     width |-> w, height |-> h]

\* images of a few hundred pixels: more than 256 colours, LZW output of exactly
\* 255 bytes, more than 255 bytes, buckets that hold several pixels, one colour
\* (on more than 256 pixels and on fewer)
MediumImages ==
    {PatternImage(17, 17, <<1, 7, 13>>, <<0, 0, 0>>, <<256, 251, 241>>),
     PatternImage(16, 14, <<1, 7, 13>>, <<0, 0, 0>>, <<256, 251, 241>>),
     PatternImage(30, 20, <<5, 3, 1>>, <<0, 0, 0>>, <<256, 256, 256>>),
     PatternImage(23, 13, <<40, 90, 0>>, <<10, 0, 77>>, <<130, 200, 256>>),
     PatternImage(20, 15, <<0, 0, 0>>, <<200, 100, 50>>, <<256, 256, 256>>),
     PatternImage(11, 9, <<0, 0, 0>>, <<9, 8, 7>>, <<256, 256, 256>>)}

\* an image wider than 16 bits can say, and images of more than 100000 pixels
\* (more than 256 colours; one colour)
BigImages ==
    {PatternImage(65536, 1, <<0, 0, 0>>, <<200, 100, 50>>, <<256, 256, 256>>),
     PatternImage(317, 316, <<1, 1, 1>>, <<0, 0, 0>>, <<7, 64, 3>>)}

MediumGifJobs == {[kind |-> "gif", image |-> im] : im \in MediumImages}

BigGifJobs == {[kind |-> "gif", image |-> im] : im \in BigImages}

\* buffers whose length is not 4 * width * height: a buffer cut short (images of at
\* most two pixels) or with bytes to spare
ShortBuffers ==
    {Image(SubSeq(Rgba(m.colours), 1, Min(n, 4 * Len(m.colours))), m.width, m.height) :
        m \in {im \in SmallImages : im.width * im.height <= 2},
        n \in 0 .. 7}

LongBuffers ==
    {Image(Rgba(m.colours) \o extra, m.width, m.height) :
        m \in SmallImages, extra \in {<<9>>, <<1, 2, 3, 255>>}}

MalformedGifJobs ==
    {[kind |-> "gif", image |-> im] :
        im \in {m \in ShortBuffers \cup LongBuffers : Size(m.data) # 4 * m.width * m.height}}

\* "A", e acute, the euro sign, the byte order mark U+FEFF, and the two
\* surrogates of U+1F600: 1, 2, 3, 3 and (as a pair) 4 bytes of UTF-8
MsgUnits == {65, 233, 8364, 65279, 55357, 56832}

Messages == SeqsUpTo(MsgUnits, MaxMsgLen)

\* an opaque canvas of w by h pixels
Canvas(w, h, fill) ==
    [width |-> w, height |-> h,
     data |-> [n \in 1 .. 4 * w * h |->
                  IF n % 4 = 0 THEN 255 ELSE (n * 37 + fill * (n \div 4)) % 256]]

\* 25 to 48 pixels: below the header, the header alone, and room for 1 to 6 bytes
CanvasSizes == {<<5, 5>>, <<32, 1>>, <<7, 5>>, <<37, 1>>, <<8, 5>>, <<43, 1>>, <<8, 6>>}

Canvases == {Canvas(d[1], d[2], fill) : d \in CanvasSizes, fill \in {0, 1}}

SecretJobs == {[kind |-> "secret", canvas |-> cv, message |-> m] : cv \in Canvases, m \in Messages}

\* the SecretEncoder calls every specification makes: "A" in 8 by 5 and in 32 by 1 pixels
FewSecretJobs ==
    {[kind |-> "secret", canvas |-> Canvas(d[1], d[2], 0), message |-> <<65>>] :
        d \in {<<8, 5>>, <<32, 1>>}}

\* clicks on tool buttons
ClickJobs == {[kind |-> "click", module |-> m] : m \in Modules}

\* the clicks every specification makes
FewClickJobs == {[kind |-> "click", module |-> "gif"]}

\* images handed to the GIF Spoofer (drop, file input or paste)
SubmitJobs ==
    {[kind |-> "submit", image |-> im] :
        im \in {Image(Rgba(<<<<255, 0, 0>>>>), 1, 1),
                 Image(Rgba(<<<<0, 0, 255>>, <<0, 0, 255>>>>), 1, 2)}}

\* the submission every specification makes
FewSubmitJobs == {[kind |-> "submit", image |-> Image(Rgba(<<<<255, 0, 0>>>>), 1, 1)]}

\* the calls that are made in sequences of several
CallPool ==
    {[kind |-> "gif", image |-> Image(Rgba(<<<<255, 0, 0>>>>), 1, 1)],
     [kind |-> "gif", image |-> Image(Rgba(<<<<255, 0, 0>>, <<0, 0, 255>>>>), 2, 1)],
     [kind |-> "gif", image |-> Image(Rgba(<<<<0, 0, 255>>, <<0, 0, 255>>>>), 1, 2)],
     [kind |-> "lzw", indices |-> <<1, 0, 1, 0>>, minCodeSize |-> 2],
     [kind |-> "secret", canvas |-> Canvas(8, 5, 0), message |-> <<65>>],
     [kind |-> "click", module |-> "gif"],
     [kind |-> "submit", image |-> Image(Rgba(<<<<255, 0, 0>>>>), 1, 1)]}

LongLzwJobs ==
    {[kind |-> "lzw", indices |-> LongInput(seed), minCodeSize |-> 8] : seed \in {1}}


(***************************************************************************)
(* The state machine                                                       *)
(***************************************************************************)
NoLz == [table |-> <<>>, nextCode |-> 0, codeSize |-> 0, w |-> <<>>,
         output |-> <<>>, buffer |-> 0, bufferLen |-> 0, codes |-> <<>>]

NoImage == [data |-> <<>>, width |-> 0, height |-> 0]

NoCanvas == [width |-> 0, height |-> 0, data |-> <<>>]

Start ==
    /\ pc = "idle"
    /\ call = "none"
    /\ imageData = NoImage
    /\ palette = <<>>
    /\ gif = <<>>
    /\ results = <<>>
    /\ indices = <<>>
    /\ minCodeSize = 0
    /\ lz = NoLz
    /\ i = 0
    /\ compressed = <<>>
    /\ canvas = NoCanvas
    /\ message = <<>>
    /\ decoded = <<>>
    /\ error = ""
    /\ welcome = ""
    /\ panels = {}
    /\ toolBtns = {}
    /\ activePanel = "null"
    /\ ghLoaded = FALSE
    /\ submissions = <<>>
    /\ converting = {}
    /\ events = <<>>
    /\ gifPreview = ""
    /\ gifDownload = ""
    /\ gifOpen = ""
    /\ gifResult = "none"

\* the previous call, if any, has returned
Returned ==
    \/ pc = "idle"
    \/ pc = "done" /\ call = "lzw"
    \/ pc = "built"
    \/ pc \in {"encoded", "decoded", "threw"}

\* buildGif(imageData) up to lzwEncode's loop: lines 146-147 (quantize), 193-197
\* and lzwEncode's lines 13-42
BuildGifCall ==
    /\ Returned
    /\ todo # <<>>
    /\ Head(todo).kind = "gif"
    /\ call' = "gif"
    /\ imageData' = [Head(todo).image EXCEPT !.data = DataLeft(Head(todo).image)]
    /\ LET q == quantize(Head(todo).image) IN
         /\ palette' = q.palette
         /\ indices' = q.indices
    /\ minCodeSize' = GifMinCodeSize
    /\ lz' = PackLz(LzwStart(indices', minCodeSize'))
    /\ i' = 1
    /\ pc' = "loop"
    /\ todo' = Tail(todo)
    /\ UNCHANGED <<gif, results, compressed, secretVars, shellVars, spooferVars>>

\* buildGif after lzwEncode returned: lines 149-212
BuildGifReturn ==
    /\ pc = "done"
    /\ call = "gif"
    /\ gif' = Paged(GifBytes(imageData.width, imageData.height, palette, Flat(compressed)))
    /\ results' = Append(results, [kind |-> "gif", input |-> imageData, output |-> gif'])
    /\ pc' = "built"
    /\ UNCHANGED <<todo, call, imageData, palette, indices, minCodeSize, lz, i, compressed,
                   secretVars, shellVars, spooferVars>>

\* a direct call lzwEncode(indices, minCodeSize): lines 13-42
LzwEncodeCall ==
    /\ Returned
    /\ todo # <<>>
    /\ call' = "lzw"
    /\ Head(todo).kind = "lzw"
    /\ indices' = Paged(Head(todo).indices)
    /\ minCodeSize' = Head(todo).minCodeSize
    /\ lz' = PackLz(LzwStart(indices', minCodeSize'))
    /\ i' = 1
    /\ pc' = "loop"
    /\ todo' = Tail(todo)
    /\ UNCHANGED <<gifVars, compressed, secretVars, shellVars, spooferVars>>

\* n consecutive iterations of the for loop: lines 44-71
LzwIter ==
    /\ pc = "loop"
    /\ \E n \in IF Size(indices) <= MaxStepped THEN {1, Stride, Stride * Stride}
                 ELSE {Size(indices) - i} :
          /\ n > 0
          /\ (i - 1) % n = 0
          /\ i + n <= Size(indices)
          /\ lz' = PackLz(LzwLoop(UnpackLz(lz), minCodeSize, indices, i, i + n - 1))
          /\ i' = i + n
    /\ UNCHANGED <<todo, call, pc, gifVars, indices, minCodeSize, compressed, secretVars, shellVars, spooferVars>>

\* loop exit and lines 73-78
LzwFinish ==
    /\ pc = "loop"
    /\ i >= Size(indices)
    /\ lz' = PackLz(LzwEnd(UnpackLz(lz), minCodeSize))
    /\ compressed' = lz'.output
    /\ results' = IF call = "lzw"
                  THEN Append(results, [kind |-> "lzw", input |-> <<indices, minCodeSize>>,
                                        output |-> compressed'])
                  ELSE results
    /\ pc' = "done"
    /\ UNCHANGED <<todo, call, imageData, palette, gif, indices, minCodeSize, i, secretVars, shellVars, spooferVars>>

\* SecretEncoder.encode(canvas, message) up to putImageData: src/app.js lines 237-289
EncodeCall ==
    /\ Returned
    /\ todo # <<>>
    /\ Head(todo).kind = "secret"
    /\ call' = "encode"
    /\ message' = Head(todo).message
    /\ LET r == encode(Head(todo).canvas, Head(todo).message) IN
         /\ canvas' = r.canvas
         /\ error' = r.error
         /\ pc' = IF r.error = "" THEN "encoded" ELSE "threw"
    /\ decoded' = <<>>
    /\ todo' = Tail(todo)
    /\ UNCHANGED <<gifVars, lzwVars, shellVars, spooferVars>>

\* SecretEncoder.decode(canvas) on the canvas encode wrote: src/app.js lines 298-344
DecodeCall ==
    /\ pc = "encoded"
    /\ call' = "decode"
    /\ LET r == decode(canvas) IN
         /\ decoded' = r.text
         /\ error' = r.error
         /\ pc' = IF r.error = "" THEN "decoded" ELSE "threw"
    /\ UNCHANGED <<todo, canvas, message, gifVars, lzwVars, shellVars, spooferVars>>

\* a click on a tool button: src/unnamed/part_001 lines 112-122
ToolButtonClick ==
    /\ Returned
    /\ todo # <<>>
    /\ Head(todo).kind = "click"
    /\ LET u == ToolClick([welcome |-> welcome, panels |-> panels, toolBtns |-> toolBtns,
                           activePanel |-> activePanel, ghLoaded |-> ghLoaded],
                          Head(todo).module) IN
         /\ welcome' = u.welcome
         /\ panels' = u.panels
         /\ toolBtns' = u.toolBtns
         /\ activePanel' = u.activePanel
         /\ ghLoaded' = u.ghLoaded
    /\ todo' = Tail(todo)
    /\ UNCHANGED <<call, pc, gifVars, lzwVars, secretVars, spooferVars>>

\* handleGifFile(file) up to its await, with the start of GifSpoofer.convert:
\* part_001 lines 148-156, part_000 lines 216-218 and 233-234
SubmitImage ==
    /\ Returned
    /\ todo # <<>>
    /\ Head(todo).kind = "submit"
    /\ submissions' = Append(submissions, Head(todo).image)
    /\ converting' = converting \cup {Len(submissions) + 1}
    /\ events' = Append(events, <<"submit", Len(submissions) + 1>>)
    /\ todo' = Tail(todo)
    /\ UNCHANGED <<call, pc, gifVars, lzwVars, secretVars, shellVars,
                   gifPreview, gifDownload, gifOpen, gifResult>>

\* the image of a pending conversion has loaded: img.onload with buildGif and
\* resolve (part_000 lines 219-228), then handleGifFile after its await
\* (part_001 lines 157-163).  The images load in any order.
ImageLoaded ==
    /\ Returned
    /\ \E n \in converting :
          LET url == ObjectUrl(n, buildGif(submissions[n])) IN
          /\ gifPreview' = url
          /\ gifDownload' = url
          /\ gifOpen' = url
          /\ gifResult' = ""
          /\ converting' = converting \ {n}
          /\ events' = Append(events, <<"load", n>>)
    /\ UNCHANGED <<todo, call, pc, gifVars, lzwVars, secretVars, shellVars, submissions>>

Next ==
    \/ BuildGifCall \/ BuildGifReturn \/ LzwEncodeCall \/ LzwIter \/ LzwFinish
    \/ EncodeCall \/ DecodeCall
    \/ ToolButtonClick
    \/ SubmitImage \/ ImageLoaded

\* one call: lzwEncode on a short input, buildGif on a small or a medium image
Init == Start /\ todo \in {<<j>> : j \in LzwJobs \cup GifJobs \cup MediumGifJobs \cup FewSecretJobs \cup FewClickJobs \cup FewSubmitJobs}

Spec == Init /\ [][Next]_vars

\* one call, the long lzwEncode inputs added
InitLong == Start /\ todo \in {<<j>> : j \in LzwJobs \cup GifJobs \cup LongLzwJobs \cup FewSecretJobs \cup FewClickJobs \cup FewSubmitJobs}

SpecLong == InitLong /\ [][Next]_vars

\* one call, the big images added
InitBig == Start /\ todo \in {<<j>> : j \in LzwJobs \cup GifJobs \cup BigGifJobs \cup FewSecretJobs \cup FewClickJobs \cup FewSubmitJobs}

SpecBig == InitBig /\ [][Next]_vars

\* one call, the buffers of the wrong length added
InitAnyBuffer == Start /\ todo \in {<<j>> : j \in LzwJobs \cup GifJobs \cup MalformedGifJobs \cup FewSecretJobs \cup FewClickJobs \cup FewSubmitJobs}

SpecAnyBuffer == InitAnyBuffer /\ [][Next]_vars

\* one call, every SecretEncoder call added
InitSecret ==
    Start /\ todo \in {<<j>> : j \in LzwJobs \cup GifJobs \cup SecretJobs \cup FewClickJobs \cup FewSubmitJobs}

\* up to MaxSubmits images submitted one after the other, each loading at any
\* time after its submission, or one call
InitSpoofer ==
    /\ Start
    /\ todo \in SeqsUpTo(SubmitJobs, MaxSubmits)
               \cup {<<j>> : j \in LzwJobs \cup GifJobs \cup FewSecretJobs \cup FewClickJobs}

SpecSpoofer == InitSpoofer /\ [][Next]_vars

\* up to MaxClicks clicks on tool buttons, or one call
InitShell ==
    /\ Start
    /\ todo \in SeqsUpTo(ClickJobs, MaxClicks)
               \cup {<<j>> : j \in LzwJobs \cup GifJobs \cup FewSecretJobs \cup FewSubmitJobs}

SpecShell == InitShell /\ [][Next]_vars

SpecSecret == InitSecret /\ [][Next]_vars

\* up to MaxCalls calls of CallPool, one after the other
InitCalls == Start /\ todo \in SeqsUpTo(CallPool, MaxCalls)

SpecCalls == InitCalls /\ [][Next]_vars

(***************************************************************************)
(* Claims                                                                  *)
(***************************************************************************)
\* the number of Clear codes written so far
ClearsWritten ==
    Cardinality({n \in 1 .. Size(lz.codes) : At(lz.codes, n)[1] = clearCode(minCodeSize)})

\* C1: when lzwEncode has returned, the reference GIF LZW decoder, given the
\* returned bytes and the same minCodeSize, reproduces exactly the input indices
\* (every input is non-empty with all values below 2^minCodeSize).
C1_RoundTrip ==
    pc = "done" /\ call = "lzw" => LzwDecode(compressed, minCodeSize).out = Flat(indices)

\* C1 witness: a finished encode that filled the dictionary, wrote a mid-stream
\* Clear, went on encoding, and decodes to its input.
C1_Witness ==
    /\ pc = "done"
    /\ call = "lzw"
    /\ ClearsWritten >= 2
    /\ lz.nextCode > eoiCode(minCodeSize) + 1
    /\ LzwDecode(compressed, minCodeSize).out = Flat(indices)

\* the image of the current buildGif call
PixelCount == imageData.width * imageData.height
PixelColours == {PixelAt(imageData.data, n) : n \in 0 .. PixelCount - 1}

\* C2: in every buildGif call (all images have width*height > 0), quantize has
\* returned a palette of exactly 256 entries and width*height indices, each of
\* them in 0..255, whether the image has 1, fewer than 256 or more than 256
\* distinct colours.
C2_PaletteAndIndexSizes ==
    call = "gif" =>
        /\ PixelCount > 0
        /\ Len(palette) = 256
        /\ Size(indices) = PixelCount
        /\ \A n \in 1 .. Size(indices) : At(indices, n) \in 0 .. 255

\* C2 witness: a quantized image of more than 256 distinct colours, with 256
\* palette entries and as many indices as pixels.
C2_Witness ==
    /\ pc = "built"
    /\ Cardinality(PixelColours) > 256
    /\ Len(palette) = 256
    /\ Size(indices) = PixelCount

\* the squared RGB distance of two colours
SqDist(p, q) ==
    (p[1] - q[1]) * (p[1] - q[1]) + (p[2] - q[2]) * (p[2] - q[2])
    + (p[3] - q[3]) * (p[3] - q[3])

\* quantize has just returned to buildGif (lzwEncode's loop has not yet run)
Quantized == call = "gif" /\ pc = "loop" /\ i = 1

\* the (colour, index) pairs of the pixels of the full buffer
Assigned == {<<PixelAt(imageData.data, n - 1), At(indices, n)>> : n \in 1 .. PixelCount}

\* C3: when quantize has returned, every pixel of the full buffer has an index,
\* and that index is the palette entry nearest to the pixel in squared RGB
\* distance among all 256 entries, the lowest index among the entries at that
\* distance; this also when the palette was derived from a sample of the pixels.
C3_NearestLowestIndex ==
    Quantized =>
        /\ Size(indices) = PixelCount
        /\ \A a \in Assigned : \A e \in 0 .. 255 :
              \/ SqDist(a[1], palette[a[2] + 1]) < SqDist(a[1], palette[e + 1])
              \/ /\ SqDist(a[1], palette[a[2] + 1]) = SqDist(a[1], palette[e + 1])
                 /\ a[2] <= e

\* C3 witness: an image above the sampling limit, with a pixel that was not
\* sampled, matches no palette entry exactly and has two entries at its
\* smallest distance, the lower of which it was given.
C3_Witness ==
    /\ Quantized
    /\ PixelCount > 100000
    /\ Size(indices) = PixelCount
    /\ \E n \in 1 .. 2000 :
          /\ (n - 1) % (PixelCount \div 50000) # 0
          /\ SqDist(PixelAt(imageData.data, n - 1), palette[At(indices, n) + 1]) > 0
          /\ \E e \in At(indices, n) + 1 .. 255 :
                SqDist(PixelAt(imageData.data, n - 1), palette[e + 1])
                = SqDist(PixelAt(imageData.data, n - 1), palette[At(indices, n) + 1])
          /\ \A e \in 0 .. 255 :
                SqDist(PixelAt(imageData.data, n - 1), palette[e + 1])
                >= SqDist(PixelAt(imageData.data, n - 1), palette[At(indices, n) + 1])

\* bytes lo..hi of the Blob (0-based, as the GIF layout is written)
GifSlice(lo, hi) == [n \in 1 .. hi - lo + 1 |-> At(gif, lo + n)]

\* C4: the Blob buildGif returned has the fixed layout: bytes 0-5 "GIF89a",
\* byte 10 0xF7, bytes 11-12 zero, bytes 13-780 the 256 palette entries in order
\* as R,G,B, bytes 781-788 the Graphic Control Extension 21 F9 04 00 00 00 00 00,
\* bytes 789-798 the Image Descriptor (0x2C, left 0, top 0, the width and height
\* fields as in bytes 6-9, flags 0), byte 799 0x08, and the last byte 0x3B.
C4_FixedLayout ==
    pc = "built" =>
        /\ Size(gif) >= 801
        /\ GifSlice(0, 5) = <<71, 73, 70, 56, 57, 97>>
        /\ GifSlice(10, 12) = <<247, 0, 0>>
        /\ \A c \in 0 .. 255 : GifSlice(13 + 3 * c, 15 + 3 * c) = palette[c + 1]
        /\ GifSlice(781, 788) = <<33, 249, 4, 0, 0, 0, 0, 0>>
        /\ GifSlice(789, 793) = <<44, 0, 0, 0, 0>>
        /\ GifSlice(794, 797) = GifSlice(6, 9)
        /\ GifSlice(798, 799) = <<0, 8>>
        /\ At(gif, Size(gif)) = 59

\* C4 witness: a Blob returned for an image of several colours, whose palette
\* bytes are not all zero.
C4_Witness ==
    /\ pc = "built"
    /\ Cardinality(PixelColours) > 256
    /\ GifSlice(781, 788) = <<33, 249, 4, 0, 0, 0, 0, 0>>
    /\ \E c \in 1 .. 255 : GifSlice(13 + 3 * c, 15 + 3 * c) # <<0, 0, 0>>

\* C5: the little-endian 16-bit width and height of the Logical Screen
\* Descriptor (bytes 6-9) and of the Image Descriptor (bytes 794-797) equal the
\* width and height of the input image.
C5_DimensionsWritten ==
    pc = "built" =>
        /\ At(gif, 7) + 256 * At(gif, 8) = imageData.width
        /\ At(gif, 9) + 256 * At(gif, 10) = imageData.height
        /\ At(gif, 795) + 256 * At(gif, 796) = imageData.width
        /\ At(gif, 797) + 256 * At(gif, 798) = imageData.height

\* the sub-blocks of the Blob from byte `pos` (1-based) on: `data` is `acc`
\* followed by the payloads, `zeroAt` the position of the zero length byte that
\* ends them (0 when a length byte is missing or out of 1..255)
RECURSIVE WalkBlocks(_, _)
WalkBlocks(pos, acc) ==
    IF pos > Size(gif) THEN [data |-> acc, zeroAt |-> 0]
    ELSE IF At(gif, pos) = 0 THEN [data |-> acc, zeroAt |-> pos]
    ELSE IF At(gif, pos) > 255 \/ pos + At(gif, pos) > Size(gif)
    THEN [data |-> acc, zeroAt |-> 0]
    ELSE WalkBlocks(pos + 1 + At(gif, pos),
                    acc \o [n \in 1 .. At(gif, pos) |-> At(gif, pos + n)])

\* C6: from byte 800 on, the Blob is a sequence of sub-blocks, each a length
\* byte in 1..255 followed by that many data bytes; the payloads concatenated
\* are lzwEncode's output byte for byte; one zero length byte ends the
\* sequence, immediately before the trailer.
C6_SubBlockFraming ==
    pc = "built" =>
        /\ WalkBlocks(801, <<>>).zeroAt = Size(gif) - 1
        /\ WalkBlocks(801, <<>>).data = Flat(compressed)
        /\ At(gif, Size(gif)) = 59

\* C6 witness: a Blob whose LZW output takes a full sub-block of 255 bytes and
\* a shorter one after it.
C6_Witness ==
    /\ pc = "built"
    /\ Size(compressed) > 255
    /\ Size(compressed) % 255 # 0
    /\ At(gif, 801) = 255
    /\ At(gif, 801 + 256) \in 1 .. 255
    /\ WalkBlocks(801, <<>>).data = Flat(compressed)

\* C7: two buildGif calls on equal pixel buffers and dimensions returned
\* byte-identical Blobs, whatever calls ran before or between them.
C7_Deterministic ==
    \A a, b \in 1 .. Len(results) :
        /\ results[a].kind = "gif"
        /\ results[b].kind = "gif"
        /\ results[a].input = results[b].input
        => results[a].output = results[b].output

\* C7 witness: three calls returned, the first and the third buildGif on the
\* same image with a different call between them, and their Blobs are equal.
C7_Witness ==
    /\ Len(results) = 3
    /\ results[1].kind = "gif"
    /\ results[3].kind = "gif"
    /\ results[1].input = results[3].input
    /\ results[2].input # results[1].input
    /\ results[1].output = results[3].output

\* C8: a buildGif call on a pixel buffer whose length is not width*height*4
\* returns no Blob (it fails instead).
C8_MismatchFails ==
    \A k \in 1 .. Len(results) :
        results[k].kind = "gif" =>
            Size(results[k].input.data) = 4 * results[k].input.width * results[k].input.height

\* the number of palette entries that hold colour col
EntriesOf(col) == Cardinality({e \in 1 .. Len(palette) : palette[e] = col})

\* C9 as claimed: for an image whose pixels all have one colour, the palette
\* holds that colour in one entry and black in the other 255.
C9_ExactlyOneEntry ==
    call = "gif" /\ Cardinality(PixelColours) = 1 =>
        \A col \in PixelColours :
            \E e \in 1 .. 256 :
                /\ palette[e] = col
                /\ \A f \in (1 .. 256) \ {e} : palette[f] = <<0, 0, 0>>

\* C9 amended: for an image whose pixels all have one colour, every palette
\* entry is that colour or black, and when the colour is not black it is held
\* by exactly min(width*height, 256) entries.
C9_SolidColourPalette ==
    call = "gif" /\ Cardinality(PixelColours) = 1 =>
        \A col \in PixelColours :
            /\ Len(palette) = 256
            /\ \A e \in 1 .. 256 : palette[e] \in {col, <<0, 0, 0>>}
            /\ col # <<0, 0, 0>> => EntriesOf(col) = Min(PixelCount, 256)

\* C9 witness: a quantized image of one colour that is not black, on more than
\* one and fewer than 256 pixels: as many entries hold the colour as there are
\* pixels, and some entry is black.
C9_Witness ==
    /\ pc = "built"
    /\ Cardinality(PixelColours) = 1
    /\ PixelCount \in 2 .. 255
    /\ <<0, 0, 0>> \notin PixelColours
    /\ \A col \in PixelColours : EntriesOf(col) = PixelCount
    /\ EntriesOf(<<0, 0, 0>>) = 256 - PixelCount

\* C10: for an input of exactly one index b, lzwEncode handed writeBits exactly
\* three codes, Clear, b and End-of-Information, each minCodeSize+1 bits wide,
\* and returned those 3*(minCodeSize+1) bits, least significant first, in
\* ceil(3*(minCodeSize+1)/8) bytes, the spare bits of the last byte zero.
C10_SingleIndex ==
    pc = "done" /\ Size(indices) = 1 =>
        /\ Flat(lz.codes) = <<<<2 ^ minCodeSize, minCodeSize + 1>>,
                              <<At(indices, 1), minCodeSize + 1>>,
                              <<2 ^ minCodeSize + 1, minCodeSize + 1>>>>
        /\ Flat(compressed) =
             [n \in 1 .. (3 * (minCodeSize + 1) + 7) \div 8 |->
                 ((2 ^ minCodeSize
                   + At(indices, 1) * 2 ^ (minCodeSize + 1)
                   + (2 ^ minCodeSize + 1) * 2 ^ (2 * (minCodeSize + 1)))
                  \div 256 ^ (n - 1)) % 256]

\* C10 witness: lzwEncode(<<2>>, 3) returned the bytes 0x28 0x09: the 4-bit
\* codes 8, 2, 9.
C10_Witness ==
    /\ pc = "done"
    /\ call = "lzw"
    /\ minCodeSize = 3
    /\ Flat(indices) = <<2>>
    /\ Flat(compressed) = <<40, 9>>

\* the number of pixels quantize samples
SampleCount == (PixelCount + SampleStep(PixelCount) - 1) \div SampleStep(PixelCount)

\* C11: lzwEncode's loop goes through the input once and ends: in the loop the
\* position i is within the input and the pending prefix w is exactly the last
\* Len(w) indices read (after a table-full reset: the current index alone, none
\* read again and none skipped); the loop is left with i at the end of the
\* input.  medianCut's recursion is at most 8 levels deep.
C11_ConsumesOnceAndEnds ==
    /\ pc = "loop" =>
          /\ i \in 1 .. Size(indices)
          /\ Len(lz.w) \in 1 .. i
          /\ \A j \in 1 .. Len(lz.w) : lz.w[j] = At(indices, i - Len(lz.w) + j)
    /\ pc = "done" => i = Size(indices)
    /\ call = "gif" => CutLevels(SampleCount, 8) <= 8

\* C11 witness: the loop right after a table-full reset, with input left to
\* read: the second Clear is the last code written and w is the current index.
C11_Witness ==
    /\ pc = "loop"
    /\ i < Size(indices)
    /\ ClearsWritten = 2
    /\ At(lz.codes, Size(lz.codes))[1] = clearCode(minCodeSize)
    /\ lz.w = <<At(indices, i)>>

Decoded == call = "decode"

\* C13: for every canvas and every non-empty message whose UTF-8 bytes fit
\* (32 + ceil(8 * length / 3) <= pixel count), decode applied to the pixels
\* encode wrote returns exactly the original message, the length read from
\* the red low bits of the first 32 pixels and the message from the red,
\* green and blue low bits of the pixels after them.
C13_DecodeReturnsMessage ==
    (Decoded /\ message # <<>>) =>
        /\ error = ""
        /\ decoded = message
        /\ ReadLength(canvas.data) = Len(Utf8Encode(message))
        /\ ReadBytes(canvas.data, canvas.width * canvas.height, Len(Utf8Encode(message)))
              = Utf8Encode(message)

\* C14: for every canvas of at least 32 pixels, encode throws "Message too
\* long" exactly when the UTF-8 byte length of the message is greater than
\* capacity(canvas), and when it throws, the canvas has the bytes it had.
C14_TooLongExactly ==
    [][(/\ todo # <<>> /\ todo' = Tail(todo) /\ Head(todo).kind = "secret"
        /\ Head(todo).canvas.width * Head(todo).canvas.height >= HeaderPixels)
          => /\ (pc' = "threw") <=>
                   (Len(Utf8Encode(Head(todo).message)) > capacity(Head(todo).canvas))
             /\ pc' = "threw" => (error' = "Message too long" /\ canvas' = Head(todo).canvas)
             /\ pc' # "threw" => (error' = "" /\ pc' = "encoded")]_vars

\* encode threw on a canvas of more than 32 pixels, the message one byte too long
C14_Witness ==
    /\ call = "encode"
    /\ pc = "threw"
    /\ error = "Message too long"
    /\ canvas.width * canvas.height > HeaderPixels
    /\ Len(Utf8Encode(message)) = capacity(canvas) + 1

(***************************************************************************)
(* lzwEncode: the codes and their widths                                   *)
(***************************************************************************)
\* The standard decoder's width bookkeeping: it starts, and starts again at
\* a Clear, with minCodeSize+1 bits and EOI+1 as its next free code; it adds
\* an entry for every code but the first after a Clear (none once 4096 is
\* reached), and widens when its next free code reaches 2^width.  `ok` says
\* that every code so far was written with the width the decoder had.
ReaderStart(mcs) ==
    [codeSize |-> mcs + 1, next |-> eoiCode(mcs) + 1, first |-> TRUE, ok |-> TRUE]

ReaderStep(d, mcs, c) ==
    LET r == [d EXCEPT !.ok = d.ok /\ c[2] = d.codeSize] IN
    IF c[1] = clearCode(mcs)
    THEN [r EXCEPT !.codeSize = mcs + 1, !.next = eoiCode(mcs) + 1, !.first = TRUE]
    ELSE IF c[1] = eoiCode(mcs) THEN r
    ELSE IF d.first THEN [r EXCEPT !.first = FALSE]
    ELSE IF d.next < 4096
    THEN [r EXCEPT !.next = d.next + 1,
                   !.codeSize = IF d.next + 1 = Pow2(d.codeSize) /\ d.codeSize < 12
                                THEN d.codeSize + 1 ELSE d.codeSize]
    ELSE r

\* ReaderStep over the codes lo..hi of the history, in order (by halving)
RECURSIVE ReaderFold(_, _, _, _)
ReaderFold(d, mcs, lo, hi) ==
    IF lo > hi THEN d
    ELSE IF lo = hi THEN ReaderStep(d, mcs, At(lz.codes, lo))
    ELSE LET mid == (lo + hi) \div 2
             left == ReaderFold(d, mcs, lo, mid)
         IN  IF left.next = 0 THEN left ELSE ReaderFold(left, mcs, mid + 1, hi)

\* C15: every code lzwEncode writes, the code of the final pending prefix
\* and the End-of-Information code included, is written with the width at
\* which the standard decoder reads it.
C15_WidthsAsDecoder ==
    pc = "done" => ReaderFold(ReaderStart(minCodeSize), minCodeSize, 1, Size(lz.codes)).ok

\* one iteration of the loop has inserted an entry
Inserted == pc = "loop" /\ pc' = "loop" /\ i' = i + 1 /\ lz'.nextCode = lz.nextCode + 1

\* C16, as claimed: after an entry is inserted, the width grows by one when
\* the next available code is greater than 2^codeSize - 1 and the width is
\* below 12, and is unchanged otherwise.
C16_WidensAtLargestValue ==
    [][Inserted =>
          lz'.codeSize = IF lz'.nextCode > Pow2(lz.codeSize) - 1 /\ lz.codeSize < 12
                         THEN lz.codeSize + 1 ELSE lz.codeSize]_vars

\* C16, amended: after an entry is inserted, the width grows by one when the
\* next available code is greater than 2^codeSize and the width is below 12,
\* and is unchanged otherwise (so also when the next code equals 2^codeSize).
C16_WidensPastPowerOfTwo ==
    [][Inserted =>
          lz'.codeSize = IF lz'.nextCode > Pow2(lz.codeSize) /\ lz.codeSize < 12
                         THEN lz.codeSize + 1 ELSE lz.codeSize]_vars

\* the insertion before made 2^codeSize the next code and left the width,
\* this one went past it and widened
C16_Witness ==
    /\ pc = "loop"
    /\ lz.codeSize = minCodeSize + 2
    /\ lz.nextCode = Pow2(minCodeSize + 1) + 1
    /\ At(lz.codes, Size(lz.codes))[2] = minCodeSize + 1
    /\ Size(lz.codes) >= 3
    /\ At(lz.codes, Size(lz.codes) - 1)[2] = minCodeSize + 1

\* one iteration of the loop, on the index k = indices[i], found w+k missing
MissAt(k) ==
    /\ pc = "loop" /\ pc' = "loop" /\ i' = i + 1
    /\ k = At(indices, i + 1)
    /\ Append(lz.w, k) \notin DOMAIN lz.table

\* C17: at a dictionary miss with the next available code equal to 4096,
\* lzwEncode writes the code of w and then a Clear, both with 12 bits, does
\* not insert w+k, leaves the literal codes alone in the dictionary, sets
\* the next available code to EOI+1 and the width to minCodeSize+1, and goes
\* on with w the current index.
C17_TableFullReset ==
    [][\A k \in 0 .. 255 :
          (MissAt(k) /\ lz.nextCode = 4096) =>
             /\ Size(lz'.codes) = Size(lz.codes) + 2
             /\ At(lz'.codes, Size(lz.codes) + 1) = <<lz.table[lz.w], 12>>
             /\ At(lz'.codes, Size(lz.codes) + 2) = <<clearCode(minCodeSize), 12>>
             /\ Append(lz.w, k) \notin DOMAIN lz'.table
             /\ lz'.table = InitialTable(minCodeSize)
             /\ lz'.nextCode = eoiCode(minCodeSize) + 1
             /\ lz'.codeSize = minCodeSize + 1
             /\ lz'.w = <<k>>]_vars

\* the loop right after the reset: the second Clear is the last code written
C17_Witness ==
    /\ pc = "loop"
    /\ Size(lz.codes) > 3000
    /\ At(lz.codes, Size(lz.codes)) = <<clearCode(minCodeSize), 12>>
    /\ lz.nextCode = eoiCode(minCodeSize) + 1
    /\ lz.w = <<At(indices, i)>>

\* the positions of the history that hold the code c
WrittenAt(c) == {n \in 1 .. Size(lz.codes) : At(lz.codes, n)[1] = c}

\* this step of lzwEncode has written a Clear
ClearWritten ==
    /\ pc = "loop"
    /\ \E n \in Size(lz.codes) + 1 .. Size(lz'.codes) :
          At(lz'.codes, n)[1] = clearCode(minCodeSize)

\* C18: in every output of lzwEncode the first code is Clear, the last code
\* is End-of-Information, End-of-Information is written exactly once, and
\* after the first code a Clear is written only at a dictionary miss at which
\* the next available code has reached 4096.
C18_ClearAndEoi ==
    /\ [](pc = "done" =>
             /\ At(lz.codes, 1)[1] = clearCode(minCodeSize)
             /\ At(lz.codes, Size(lz.codes))[1] = eoiCode(minCodeSize)
             /\ WrittenAt(eoiCode(minCodeSize)) = {Size(lz.codes)})
    /\ [][(ClearWritten /\ (pc' = "done" \/ i' = i + 1)) =>
             /\ pc' = "loop"
             /\ MissAt(At(indices, i + 1))
             /\ lz.nextCode = 4096]_vars

\* an output with a Clear in the middle: two Clears, End-of-Information last
C18_Witness ==
    /\ pc = "done"
    /\ At(lz.codes, Size(lz.codes))[1] = eoiCode(minCodeSize)
    /\ Cardinality(WrittenAt(clearCode(minCodeSize))) = 2

\* lzwEncode is running or has returned
InPass == pc \in {"loop", "done"}

\* C19: at every point of a compression pass the code width is between
\* minCodeSize+1 and 12, the next available code is between EOI+1 and 4096,
\* no dictionary entry has a code of 4096 or more, and every code written is
\* smaller than 2^(the width it was written with).
C19_Ranges ==
    InPass =>
        /\ lz.codeSize \in minCodeSize + 1 .. 12
        /\ lz.nextCode \in eoiCode(minCodeSize) + 1 .. 4096
        /\ \A key \in DOMAIN lz.table : lz.table[key] < 4096
        /\ \A n \in 1 .. Size(lz.codes) : At(lz.codes, n)[1] < Pow2(At(lz.codes, n)[2])

\* the dictionary is full: 4096 is the next code, 4095 is in the table, and
\* the last code was written with 12 bits
C19_Witness ==
    /\ pc = "loop"
    /\ lz.nextCode = 4096
    /\ lz.codeSize = 12
    /\ At(lz.codes, Size(lz.codes))[2] = 12
    /\ \E key \in DOMAIN lz.table : lz.table[key] = 4095

\* the codes the keys of the dictionary are mapped to
TableCodes == {lz.table[key] : key \in DOMAIN lz.table}

\* C20: at every iteration of lzwEncode (the input not empty, its values
\* below the Clear code) the pending prefix w is a key of the dictionary, also
\* right after a table-full reset, so the code written for w is the code of w;
\* w+k is inserted only when it is not a key, and no two keys have the same
\* code.
C20_PrefixIsKey ==
    /\ [](pc = "loop" =>
             /\ lz.w \in DOMAIN lz.table
             /\ Cardinality(TableCodes) = Cardinality(DOMAIN lz.table))
    /\ [][\A k \in 0 .. 255 :
             /\ MissAt(k) =>
                   At(lz'.codes, Size(lz.codes) + 1)[1] = lz.table[lz.w]
             /\ (pc = "loop" /\ pc' = "loop" /\ i' = i + 1 /\ k = At(indices, i + 1)
                   /\ lz'.nextCode = lz.nextCode + 1) =>
                   /\ Append(lz.w, k) \notin DOMAIN lz.table
                   /\ lz'.table[Append(lz.w, k)] = lz.nextCode]_vars

\* the iteration after the reset: w is the literal the reset left, a key of
\* the reseeded dictionary, and one entry has been inserted since
C20_Witness ==
    /\ pc = "loop"
    /\ Size(lz.codes) > 3000
    /\ lz.nextCode = eoiCode(minCodeSize) + 2
    /\ Len(lz.w) = 1
    /\ lz.w \in DOMAIN lz.table

(***************************************************************************)
(* writeBits                                                               *)
(***************************************************************************)
\* The codes lo..hi of the history read back from the bytes: code n starts
\* at the bit after the widths of the codes before it.  `pos` is that bit,
\* `ok` says that every code so far is the `size` bits found at its place,
\* low bit first (bit p of the stream is bit p mod 8 of byte p div 8).
RECURSIVE PackedFold(_, _, _, _)
PackedFold(d, bytes, lo, hi) ==
    IF lo > hi THEN d
    ELSE IF lo = hi
    THEN LET c == At(lz.codes, lo) IN
         [pos |-> d.pos + c[2],
          ok |-> d.ok /\ d.pos + c[2] <= 8 * Size(bytes)
                      /\ ReadCode(bytes, d.pos, c[2]) = c[1]]
    ELSE LET mid == (lo + hi) \div 2
             left == PackedFold(d, bytes, lo, mid)
         IN  IF left.pos < 0 THEN left ELSE PackedFold(left, bytes, mid + 1, hi)

\* all codes of the history, against lzwEncode's return value
Packed == PackedFold([pos |-> 0, ok |-> TRUE], compressed, 1, Size(lz.codes))

\* the locals of writeBits alone
BitBuffer == [lz EXCEPT !.output = <<>>, !.codes = <<>>]

\* C21: writeBits packs the codes low bit first: bit i of the codes' bits
\* put end to end is bit (i mod 8) of output byte floor(i/8); after every
\* call of writeBits fewer than 8 bits are buffered; the output returned has
\* exactly ceil(totalBits/8) bytes and the unused high bits of its last byte
\* are zero.
C21_PackedLowBitFirst ==
    /\ pc = "loop" =>
          /\ lz.bufferLen < 8
          /\ lz.buffer < Pow2(lz.bufferLen)
          /\ \A size \in minCodeSize + 1 .. 12 :
                LET s == writeBits(BitBuffer, Pow2(size) - 1, size) IN
                /\ s.bufferLen < 8
                /\ s.bufferLen = (lz.bufferLen + size) % 8
                /\ Len(s.output) = (lz.bufferLen + size) \div 8
    /\ pc = "done" =>
          LET d == Packed IN
          /\ d.ok
          /\ Size(compressed) = (d.pos + 7) \div 8
          /\ d.pos % 8 # 0 => At(compressed, Size(compressed)) < Pow2(d.pos % 8)

\* a long output, with codes of 9 to 12 bits, whose bits end inside the last byte
C21_Witness ==
    /\ pc = "done"
    /\ lz.bufferLen > 0
    /\ Size(compressed) > 4096
    /\ At(lz.codes, 3000)[2] = 12

(***************************************************************************)
(* medianCut                                                               *)
(***************************************************************************)
\* max - min of channel ch over a bucket that is not empty
RangeOf(bucket, ch) ==
    LET vals == {bucket[j][ch] : j \in 1 .. Len(bucket)} IN
    (CHOOSE x \in vals : \A y \in vals : y <= x) - (CHOOSE x \in vals : \A y \in vals : x <= y)

\* ch has the largest range, and no channel before it has a range as large
IsWidestFirst(bucket, ch) ==
    /\ \A c \in 1 .. 3 : RangeOf(bucket, c) <= RangeOf(bucket, ch)
    /\ \A c \in 1 .. ch - 1 : RangeOf(bucket, c) < RangeOf(bucket, ch)

\* the two sequences hold the same pixels the same number of times
SameBag(a, b) ==
    /\ Len(a) = Len(b)
    /\ \A col \in {a[j] : j \in 1 .. Len(a)} \cup {b[j] : j \in 1 .. Len(b)} :
          Cardinality({j \in 1 .. Len(a) : a[j] = col})
             = Cardinality({j \in 1 .. Len(b) : b[j] = col})

RECURSIVE Total(_, _, _)
Total(bucket, ch, n) == IF n = 0 THEN 0 ELSE bucket[n][ch] + Total(bucket, ch, n - 1)

\* the mean of each channel rounded to the nearest integer, halves upwards
RoundedMean(bucket) ==
    [ch \in 1 .. 3 |-> (2 * Total(bucket, ch, Len(bucket)) + Len(bucket)) \div (2 * Len(bucket))]

RECURSIVE Joined(_)
Joined(buckets) == IF buckets = <<>> THEN <<>> ELSE Head(buckets) \o Joined(Tail(buckets))

\* C22: every split medianCut makes of a bucket that is not empty, at a depth
\* above 0, sorts the bucket by the channel of the largest max-min range (R
\* before G before B among equals) and hands on the first floor(n/2) sorted
\* pixels as the lower half and the rest as the upper half; the leaf buckets
\* hold the samples, each as often as it was sampled; a leaf that is not
\* empty gives the rounded mean of its pixels and an empty leaf gives black.
C22_SplitsAndLeaves ==
    Quantized =>
        \A samples \in {Samples(imageData.data, PixelCount)} :
          /\ \A sp \in CutSplits(samples, 8) :
                /\ IsWidestFirst(sp.bucket, sp.ch)
                /\ SameBag(sp.lower \o sp.upper, sp.bucket)
                /\ \A j \in 1 .. Len(sp.bucket) - 1 :
                      (sp.lower \o sp.upper)[j][sp.ch] <= (sp.lower \o sp.upper)[j + 1][sp.ch]
                /\ Len(sp.lower) = Len(sp.bucket) \div 2
          /\ \A leaves \in {CutLeaves(samples, 8)} :
                /\ SameBag(Joined(leaves), samples)
                /\ Len(leaves) <= 256
                /\ \A j \in 1 .. Len(leaves) :
                      palette[j] = IF leaves[j] = <<>> THEN <<0, 0, 0>>
                                   ELSE RoundedMean(leaves[j])

\* an image of more than 256 pixels whose first split is by green or blue and
\* whose leaves hold two pixels or more: means of several pixels
C22_Witness ==
    /\ Quantized
    /\ PixelCount > 256
    /\ \E sp \in CutSplits(Samples(imageData.data, PixelCount), 8) :
          /\ sp.depth = 8
          /\ sp.ch > 1
          /\ sp.lower # <<>>
          /\ sp.lower[1][sp.ch] < sp.upper[Len(sp.upper)][sp.ch]

(***************************************************************************)
(* The app shell                                                           *)
(***************************************************************************)
\* C23: after any sequence of clicks on tool buttons at most one panel is
\* open, activePanel is the id of the open panel and null exactly when no
\* panel is open, and the welcome view is shown exactly when no panel is
\* open.
C23_OnePanel ==
    /\ Cardinality(panels) <= 1
    /\ \A id \in panels : activePanel = id
    /\ activePanel = "null" <=> panels = {}
    /\ welcome = "" <=> panels = {}

\* the GitHub panel was opened once, and a click has closed the open panel
\* since: no panel open, the welcome view shown again
C23_Witness ==
    /\ ghLoaded
    /\ panels = {}
    /\ activePanel = "null"
    /\ welcome = ""
    /\ toolBtns = {}

\* the place of event e in the history
EventAt(e) == CHOOSE n \in 1 .. Len(events) : events[n] = e

\* the second image was submitted while the first conversion was pending, and
\* both conversions (and no other) have completed
BothCompleted ==
    /\ Len(submissions) = 2
    /\ converting = {}
    /\ EventAt(<<"submit", 2>>) < EventAt(<<"load", 1>>)

\* C24: when a second image is submitted while an earlier conversion is still
\* pending, then once both conversions have completed the preview, the
\* download link and the open link all refer to the GIF of the image submitted
\* last, whichever conversion finished first.
C24_LatestImageShown ==
    BothCompleted =>
        /\ gifPreview = ObjectUrl(2, buildGif(submissions[2]))
        /\ gifDownload = gifPreview
        /\ gifOpen = gifPreview

====
